---- MODULE Spec2Model ----
(***************************************************************************)
(* A model of the bencode codec of src/bencode.py.                         *)
(*                                                                         *)
(* Bytes are the naturals 0..255, a bytes object is a sequence of bytes,   *)
(* a str is a sequence of code points.  A Python object is a record        *)
(* [t |-> type tag, v |-> payload]; a dict's payload is the sequence of    *)
(* its <<key, value>> items in insertion order (keys pairwise unequal).    *)
(* The encoder is a pure function and is written as operators; the decoder *)
(* is a recursive descent over a cursor, and is written as a machine with  *)
(* an explicit call stack, one action per function of the source.          *)
(***************************************************************************)
EXTENDS Integers, Sequences, FiniteSets, TLC

(* ------------------------------------------------------------------ *)
(* Module constants (src/bencode.py:12-16), as byte values.            *)
INTEGER == 105
LIST == 108
DICT == 100
END == 101
COLON == 58

(* Other ASCII bytes the Python built-ins look at. *)
MINUS == 45
PLUS == 43
UNDERSCORE == 95
ZERO == 48
NINE == 57

(* ------------------------------------------------------------------ *)
(* Bounds of the model.                                                *)
MaxLen == 5
RecursionLimit == 14
MaxItems == 2

(* ------------------------------------------------------------------ *)
(* Python built-ins used by the codec.                                 *)

Min(a, b) == IF a < b THEN a ELSE b
Max(a, b) == IF a < b THEN b ELSE a

(* A slice bound as Python adjusts it: negative counts from the end,   *)
(* then clamped into 0..len.                                           *)
PyClamp(n, len) == IF n < 0 THEN Max(n + len, 0) ELSE Min(n, len)

(* data[a:b] *)
PySlice(data, a, b) ==
  LET lo == PyClamp(a, Len(data))
      hi == PyClamp(b, Len(data))
  IN  IF lo < hi THEN SubSeq(data, lo + 1, hi) ELSE <<>>

(* data.index(byte, start): the 0-based position of the first           *)
(* occurrence at or after start (adjusted like a slice bound), or -1    *)
(* where Python raises ValueError("subsection not found").              *)
PyIndex(data, byte, start) ==
  LET lo == PyClamp(start, Len(data))
      hits == {p \in lo .. (Len(data) - 1) : data[p + 1] = byte}
  IN  IF hits = {} THEN -1
      ELSE CHOOSE p \in hits : \A q \in hits : p <= q

(* bytes.isdigit(): non-empty and every byte an ASCII digit. *)
IsDigitByte(b) == b >= ZERO /\ b <= NINE
PyIsDigit(s) == s # <<>> /\ \A k \in 1 .. Len(s) : IsDigitByte(s[k])

IsSpaceByte(b) == b \in {9, 10, 11, 12, 13, 32}

RECURSIVE LStrip(_)
LStrip(s) ==
  IF s # <<>> /\ IsSpaceByte(Head(s)) THEN LStrip(Tail(s)) ELSE s

RECURSIVE RStrip(_)
RStrip(s) ==
  IF s # <<>> /\ IsSpaceByte(s[Len(s)])
  THEN RStrip(SubSeq(s, 1, Len(s) - 1)) ELSE s

(* The digit part of an int literal: digits, single underscores only   *)
(* between digits.                                                     *)
DigitsOk(s) ==
  /\ s # <<>>
  /\ IsDigitByte(s[1])
  /\ IsDigitByte(s[Len(s)])
  /\ \A k \in 1 .. Len(s) : IsDigitByte(s[k]) \/ s[k] = UNDERSCORE
  /\ \A k \in 1 .. (Len(s) - 1) : ~(s[k] = UNDERSCORE /\ s[k + 1] = UNDERSCORE)

RECURSIVE DigitsValue(_)
DigitsValue(s) ==
  IF s = <<>> THEN 0
  ELSE LET front == SubSeq(s, 1, Len(s) - 1)
           last == s[Len(s)]
       IN  IF last = UNDERSCORE THEN DigitsValue(front)
           ELSE 10 * DigitsValue(front) + (last - ZERO)

(* int(s) for a bytes object s, base 10: surrounding whitespace, an    *)
(* optional sign, digits.  [ok |-> FALSE] where Python raises          *)
(* ValueError("invalid literal for int()").                            *)
PyInt(s) ==
  LET t == RStrip(LStrip(s))
      signed == t # <<>> /\ t[1] \in {MINUS, PLUS}
      body == IF signed THEN Tail(t) ELSE t
  IN  IF ~DigitsOk(body) THEN [ok |-> FALSE, n |-> 0]
      ELSE [ok |-> TRUE,
            n |-> IF signed /\ t[1] = MINUS THEN 0 - DigitsValue(body)
                  ELSE DigitsValue(body)]

RECURSIVE NatDigits(_)
NatDigits(n) ==
  IF n < 10 THEN <<ZERO + n>>
  ELSE Append(NatDigits(n \div 10), ZERO + (n % 10))

(* str(n).encode("utf-8") *)
PyStrInt(n) == IF n < 0 THEN <<MINUS>> \o NatDigits(0 - n) ELSE NatDigits(n)

(* ------------------------------------------------------------------ *)
(* UTF-8 (ENCODING, src/bencode.py:11).                                *)

IsCont(b) == b >= 128 /\ b <= 191

(* The UTF-8 bytes of one code point (no surrogates among the inputs). *)
Utf8Char(c) ==
  IF c < 128 THEN <<c>>
  ELSE IF c < 2048 THEN <<192 + (c \div 64), 128 + (c % 64)>>
  ELSE IF c < 65536
       THEN <<224 + (c \div 4096), 128 + ((c \div 64) % 64), 128 + (c % 64)>>
  ELSE <<240 + (c \div 262144), 128 + ((c \div 4096) % 64),
         128 + ((c \div 64) % 64), 128 + (c % 64)>>

(* str.encode("utf-8") *)
RECURSIVE Utf8Encode(_)
Utf8Encode(cps) ==
  IF cps = <<>> THEN <<>> ELSE Utf8Char(Head(cps)) \o Utf8Encode(Tail(cps))

(* How many bytes the well-formed sequence starting at s[1] takes, 0    *)
(* when s does not start with a well-formed sequence (strict decoding:  *)
(* no overlong forms, no surrogates, nothing above U+10FFFF).           *)
Utf8Width(s) ==
  LET b == s[1]
      c(k) == Len(s) >= k /\ IsCont(s[k])
  IN  IF b < 128 THEN 1
      ELSE IF b >= 194 /\ b <= 223 THEN (IF c(2) THEN 2 ELSE 0)
      ELSE IF b = 224
           THEN (IF c(2) /\ s[2] >= 160 /\ c(3) THEN 3 ELSE 0)
      ELSE IF b = 237
           THEN (IF c(2) /\ s[2] <= 159 /\ c(3) THEN 3 ELSE 0)
      ELSE IF b >= 225 /\ b <= 239 THEN (IF c(2) /\ c(3) THEN 3 ELSE 0)
      ELSE IF b = 240
           THEN (IF c(2) /\ s[2] >= 144 /\ c(3) /\ c(4) THEN 4 ELSE 0)
      ELSE IF b = 244
           THEN (IF c(2) /\ s[2] <= 143 /\ c(3) /\ c(4) THEN 4 ELSE 0)
      ELSE IF b >= 241 /\ b <= 243
           THEN (IF c(2) /\ c(3) /\ c(4) THEN 4 ELSE 0)
      ELSE 0

Utf8CodePoint(s, w) ==
  IF w = 1 THEN s[1]
  ELSE IF w = 2 THEN (s[1] - 192) * 64 + (s[2] - 128)
  ELSE IF w = 3
       THEN (s[1] - 224) * 4096 + (s[2] - 128) * 64 + (s[3] - 128)
  ELSE (s[1] - 240) * 262144 + (s[2] - 128) * 4096
       + (s[3] - 128) * 64 + (s[4] - 128)

(* bytes.decode("utf-8"): [ok |-> FALSE] where Python raises             *)
(* UnicodeDecodeError.                                                   *)
RECURSIVE Utf8Decode(_)
Utf8Decode(s) ==
  IF s = <<>> THEN [ok |-> TRUE, cps |-> <<>>]
  ELSE LET w == Utf8Width(s)
       IN  IF w = 0 THEN [ok |-> FALSE, cps |-> <<>>]
           ELSE LET rest == Utf8Decode(SubSeq(s, w + 1, Len(s)))
                IN  IF rest.ok
                    THEN [ok |-> TRUE,
                          cps |-> <<Utf8CodePoint(s, w)>> \o rest.cps]
                    ELSE [ok |-> FALSE, cps |-> <<>>]

(* ------------------------------------------------------------------ *)
(* Python objects.                                                     *)

MkInt(n) == [t |-> "int", v |-> n]
MkBool(b) == [t |-> "bool", v |-> b]
MkBytes(s) == [t |-> "bytes", v |-> s]
MkStr(cps) == [t |-> "str", v |-> cps]
MkList(xs) == [t |-> "list", v |-> xs]
MkDict(items) == [t |-> "dict", v |-> items]
PyNone == [t |-> "NoneType", v |-> 0]

(* Lexicographic order of two sequences of naturals: the order of       *)
(* bytes objects, and of str objects by code point.                     *)
RECURSIVE SeqLess(_, _)
SeqLess(a, b) ==
  IF b = <<>> THEN FALSE
  ELSE IF a = <<>> THEN TRUE
  ELSE IF Head(a) # Head(b) THEN Head(a) < Head(b)
  ELSE SeqLess(Tail(a), Tail(b))

(* The types Python's < is defined between. *)
CmpClass(x) ==
  IF x.t \in {"int", "bool"} THEN "number"
  ELSE IF x.t \in {"str", "bytes"} THEN x.t
  ELSE "unordered"

Comparable(x, y) == CmpClass(x) = CmpClass(y) /\ CmpClass(x) # "unordered"

NumOf(x) == IF x.t = "bool" THEN (IF x.v THEN 1 ELSE 0) ELSE x.v

(* x < y for two comparable keys. *)
PyLess(x, y) ==
  IF CmpClass(x) = "number" THEN NumOf(x) < NumOf(y) ELSE SeqLess(x.v, y.v)

(* sorted(value.items()): the items in ascending order of their keys    *)
(* (the keys of a dict are pairwise unequal, so the tuple comparison is  *)
(* decided by the keys).  A comparison sort compares across every split  *)
(* of the items, so two keys of types that < is not defined between      *)
(* raise TypeError.                                                      *)
(* A sort that leaves the items in insertion order. *)
InsertionOrder(items) == items

SortedItems(items) ==
  LET n == Len(items)
      rank(k) == Cardinality({j \in 1 .. n : PyLess(items[j][1], items[k][1])})
  IN  [r \in 1 .. n |-> items[CHOOSE k \in 1 .. n : rank(k) = r - 1]]

PySorted(items) ==
  IF \E j, k \in 1 .. Len(items) : j # k /\ ~Comparable(items[j][1], items[k][1])
  THEN [err |-> "TypeError", items |-> <<>>]
  ELSE [err |-> "none", items |-> SortedItems(items)]

(* ------------------------------------------------------------------ *)
(* The encoder.  A result is [err, out]: err is "none" and out the      *)
(* bytes, or err names the exception raised and out is empty.           *)

Bytes(out) == [err |-> "none", out |-> out]
Raise(e) == [err |-> e, out |-> <<>>]

(* b"".join(result) over parts that are themselves results: the first   *)
(* part that raised ends the call.                                      *)
RECURSIVE JoinParts(_)
JoinParts(parts) ==
  IF parts = <<>> THEN Bytes(<<>>)
  ELSE LET h == Head(parts)
       IN  IF h.err # "none" THEN h
           ELSE LET r == JoinParts(Tail(parts))
                IN  IF r.err # "none" THEN r ELSE Bytes(h.out \o r.out)

_encode_int(value) == Bytes(<<INTEGER>> \o PyStrInt(value) \o <<END>>)

_encode_bool(value) == _encode_int(IF value THEN 1 ELSE 0)

_encode_bytes(value) == Bytes(PyStrInt(Len(value)) \o <<COLON>> \o value)

_encode_str(value) == _encode_bytes(Utf8Encode(value))

RECURSIVE encode(_)

_encode_list(data) ==
  JoinParts(<<Bytes(<<LIST>>)>>
            \o [k \in 1 .. Len(data) |-> encode(data[k])]
            \o <<Bytes(<<END>>)>>)

RECURSIVE ItemParts(_)
ItemParts(items) ==
  IF items = <<>> THEN <<>>
  ELSE <<encode(Head(items)[1]), encode(Head(items)[2])>>
       \o ItemParts(Tail(items))

_encode_dict(value) ==
  LET sorted_dict == PySorted(value)
  IN  IF sorted_dict.err # "none" THEN Raise(sorted_dict.err)
      ELSE JoinParts(<<Bytes(<<DICT>>)>>
                     \o ItemParts(sorted_dict.items)
                     \o <<Bytes(<<END>>)>>)

encode(data) ==
  IF data.t = "bool" THEN _encode_bool(data.v)
  ELSE IF data.t = "bytes" THEN _encode_bytes(data.v)
  ELSE IF data.t = "dict" THEN _encode_dict(data.v)
  ELSE IF data.t = "int" THEN _encode_int(data.v)
  ELSE IF data.t = "list" THEN _encode_list(data.v)
  ELSE IF data.t = "str" THEN _encode_str(data.v)
  ELSE Raise("BencodeEncodeError")

(* ------------------------------------------------------------------ *)
(* The decoder's pure parts.                                           *)

(* _decode's dispatch on the byte at the cursor: the function it calls, *)
(* or "raise".                                                          *)
Dispatch(char) ==
  IF char = <<INTEGER>> THEN "_decode_int"
  ELSE IF PyIsDigit(char) THEN "_decode_str"
  ELSE IF char = <<DICT>> THEN "_decode_dict"
  ELSE IF char = <<LIST>> THEN "_decode_list"
  ELSE "raise"

(* _decode_int returning the terminator's index, not the one after it. *)
ParseIntOnTerminator(data, i0) ==
  LET i == i0 + 1
      end_idx == PyIndex(data, END, i)
      num == PyInt(PySlice(data, i, end_idx))
  IN  IF end_idx = -1 \/ ~num.ok
      THEN [err |-> "ValueError", val |-> PyNone, i |-> 0]
      ELSE [err |-> "none", val |-> MkInt(num.n), i |-> end_idx]

(* The body of _decode_int: [err, val, i]. *)
ParseInt(data, i0) ==
  LET i == i0 + 1
      end_idx == PyIndex(data, END, i)
      num == PyInt(PySlice(data, i, end_idx))
  IN  IF end_idx = -1 \/ ~num.ok
      THEN [err |-> "ValueError", val |-> PyNone, i |-> 0]
      ELSE [err |-> "none", val |-> MkInt(num.n), i |-> end_idx + 1]

(* The body of _decode_str: [err, val, i]. *)
ParseStr(data, i) ==
  LET colon_idx == PyIndex(data, COLON, i)
      length == PyInt(PySlice(data, i, colon_idx))
      start == colon_idx + 1
      byte_string == PySlice(data, start, start + length.n)
      text == Utf8Decode(byte_string)
  IN  IF colon_idx = -1 \/ ~length.ok
      THEN [err |-> "ValueError", val |-> PyNone, i |-> 0]
      ELSE [err |-> "none",
            val |-> IF text.ok THEN MkStr(text.cps) ELSE MkBytes(byte_string),
            i |-> start + length.n]

(* result[key] = item on a dict's items. *)
DictSet(items, key, item) ==
  IF \E k \in 1 .. Len(items) : items[k][1] = key
  THEN [k \in 1 .. Len(items) |->
          IF items[k][1] = key THEN <<key, item>> ELSE items[k]]
  ELSE Append(items, <<key, item>>)

(* A final test that only rejects a cursor past the end. *)
LengthShort(data, length) == Len(data) < length

(* decode's final test: the end cursor against the buffer length. *)
LengthMismatch(data, length) == Len(data) # length

(* ------------------------------------------------------------------ *)
(* Inputs.                                                             *)

Alphabet == {INTEGER, END, LIST, DICT, COLON, MINUS, ZERO, ZERO + 1}

RECURSIVE SeqsUpTo(_, _)
SeqsUpTo(S, n) ==
  IF n = 0 THEN {<<>>}
  ELSE LET shorter == SeqsUpTo(S, n - 1)
       IN  shorter \cup {Append(s, b) : s \in {t \in shorter : Len(t) = n - 1}, b \in S}

Buffers == SeqsUpTo(Alphabet, MaxLen)

(* What the containers hold: an int, bytes that are not UTF-8, and a    *)
(* value of a type encode does not know.                                *)
Elems == {MkInt(-12), MkBytes(<<255>>), PyNone}

Scalars == Elems \cup {MkInt(0), MkBool(TRUE), MkBytes(<<195, 169>>), MkStr(<<233>>)}

(* Dict keys: bytes (empty, text, not UTF-8), text, and an int. *)
Keys ==
  {MkBytes(<<>>), MkBytes(<<97>>), MkBytes(<<255>>),
   MkStr(<<98>>), MkStr(<<233>>), MkInt(1)}

(* The item sequences of the dicts with at most n items: keys pairwise  *)
(* different, in every insertion order.                                 *)
RECURSIVE ItemSeqs(_, _)
ItemSeqs(vals, n) ==
  IF n = 0 THEN {<<>>}
  ELSE LET shorter == ItemSeqs(vals, n - 1)
       IN  shorter \cup
           {Append(s, <<k, x>>) :
              s \in {t \in shorter : Len(t) = n - 1},
              k \in Keys, x \in vals}

DistinctKeys(items) ==
  \A j, k \in 1 .. Len(items) : j # k => items[j][1] # items[k][1]

Flat ==
  {MkList(xs) : xs \in SeqsUpTo(Elems, MaxItems)}
  \cup {MkDict(items) : items \in {s \in ItemSeqs(Elems, MaxItems) : DistinctKeys(s)}}

Nested ==
  {MkList(<<x>>) : x \in Flat}
  \cup {MkDict(<< <<MkBytes(<<97>>), x>> >>) : x \in Flat}

Objects == Scalars \cup Flat \cup Nested

(* The bytes that may follow an encoded value in a buffer. *)
Extras == {<<>>, <<END>>, <<ZERO>>}

(* ------------------------------------------------------------------ *)
(* State.                                                              *)

VARIABLES
  value,      \* the object given to encode
  encoded,    \* encode(value): [err, out]
  extra,      \* what was appended to the encoded bytes to make the buffer
  data,       \* the buffer given to decode
  pc,         \* "input", "encoded", "ready", "call", "loop", "ret", "done", "reencoded"
  call,       \* the call about to run: [fn, i]
  stack,      \* the frames of the calls in progress, innermost last
  ret,        \* the last return: [fn, start, val, i]
  outcome,    \* decode's result: [err, val]
  seen,       \* what the parse met: "truncated_container", "overlong_bytestring"
  reencoded   \* encode(decode(data)): [err, out]

vars == <<value, encoded, extra, data, pc, call, stack, ret, outcome, seen, reencoded>>

Pending == [err |-> "pending", out |-> <<>>]
NoCall == [fn |-> "none", i |-> 0]
NoRet == [fn |-> "none", start |-> 0, val |-> PyNone, i |-> 0]
NoOutcome == [err |-> "pending", val |-> PyNone]

Frame(fn, start, i) ==
  [fn |-> fn, start |-> start, i |-> i, acc |-> <<>>, key |-> PyNone, haveKey |-> FALSE]

Top == stack[Len(stack)]
Pop == SubSeq(stack, 1, Len(stack) - 1)
SetTop(f) == [stack EXCEPT ![Len(stack)] = f]

Idle ==
  /\ call = NoCall /\ stack = <<>> /\ ret = NoRet
  /\ outcome = NoOutcome /\ seen = {} /\ reencoded = Pending

Init ==
  /\ value \in Objects
  /\ encoded = Pending /\ extra = <<>> /\ data = <<>>
  /\ pc = "input"
  /\ Idle

InitDecode ==
  /\ value = PyNone
  /\ encoded = Pending /\ extra = <<>>
  /\ data \in Buffers
  /\ pc = "ready"
  /\ Idle

(* ------------------------------------------------------------------ *)
(* Actions.                                                            *)

(* An uncaught exception: it unwinds every frame and ends decode. *)
Fail(e) ==
  /\ pc' = "done"
  /\ outcome' = [err |-> e, val |-> PyNone]
  /\ stack' = <<>>

(* encode(value) *)
Encode ==
  /\ pc = "input"
  /\ encoded' = encode(value)
  /\ pc' = "encoded"
  /\ UNCHANGED <<value, extra, data, call, stack, ret, outcome, seen, reencoded>>

(* The encoded bytes, alone or followed by extra bytes, become a buffer. *)
Feed ==
  /\ pc = "encoded"
  /\ encoded.err = "none"
  /\ \E x \in Extras :
       /\ extra' = x
       /\ data' = encoded.out \o x
  /\ pc' = "ready"
  /\ UNCHANGED <<value, encoded, call, stack, ret, outcome, seen, reencoded>>

(* decode, to its call of _decode(data, 0) (line 212).  The buffer is   *)
(* already a bytes object: a str argument is first encoded as UTF-8      *)
(* (lines 209-210).                                                      *)
decode_call ==
  /\ pc = "ready"
  /\ stack' = <<Frame("decode", 0, 0)>>
  /\ call' = [fn |-> "_decode", i |-> 0]
  /\ pc' = "call"
  /\ UNCHANGED <<value, encoded, extra, data, ret, outcome, seen, reencoded>>

(* decode, from the return of _decode (lines 212-215). *)
decode_return ==
  /\ pc = "ret"
  /\ Top.fn = "decode"
  /\ IF LengthMismatch(data, ret.i)
     THEN Fail("BencodeDecodeError")
     ELSE /\ pc' = "done"
          /\ outcome' = [err |-> "none", val |-> ret.val]
          /\ stack' = <<>>
  /\ UNCHANGED <<value, encoded, extra, data, call, ret, seen, reencoded>>

(* _decode, to the call it dispatches to (lines 188-199). *)
_decode ==
  /\ pc = "call"
  /\ call.fn = "_decode"
  /\ LET target == Dispatch(PySlice(data, call.i, call.i + 1))
     IN  IF target = "raise"
         THEN Fail("BencodeDecodeError") /\ UNCHANGED call
         ELSE IF Len(stack) >= RecursionLimit
         THEN Fail("RecursionError") /\ UNCHANGED call
         ELSE /\ stack' = Append(stack, Frame("_decode", call.i, call.i))
              /\ call' = [fn |-> target, i |-> call.i]
              /\ pc' = "call"
              /\ UNCHANGED outcome
  /\ UNCHANGED <<value, encoded, extra, data, ret, seen, reencoded>>

(* _decode, returning what the function it called returned. *)
_decode_return ==
  /\ pc = "ret"
  /\ Top.fn = "_decode"
  /\ ret' = [ret EXCEPT !.fn = "_decode", !.start = Top.start]
  /\ stack' = Pop
  /\ UNCHANGED <<value, encoded, extra, data, pc, call, outcome, seen, reencoded>>

(* _decode_int (lines 122-125). *)
_decode_int ==
  /\ pc = "call"
  /\ call.fn = "_decode_int"
  /\ LET r == ParseInt(data, call.i)
     IN  IF r.err # "none"
         THEN Fail(r.err) /\ UNCHANGED ret
         ELSE /\ ret' = [fn |-> "_decode_int", start |-> call.i, val |-> r.val, i |-> r.i]
              /\ pc' = "ret"
              /\ UNCHANGED <<stack, outcome>>
  /\ UNCHANGED <<value, encoded, extra, data, call, seen, reencoded>>

(* The declared length of the string at i exceeds what follows its ':'. *)
Overlong(buf, i) ==
  LET colon_idx == PyIndex(buf, COLON, i)
      length == PyInt(PySlice(buf, i, colon_idx))
  IN  colon_idx # -1 /\ length.ok /\ length.n > Len(buf) - (colon_idx + 1)

(* _decode_str (lines 135-144). *)
_decode_str ==
  /\ pc = "call"
  /\ call.fn = "_decode_str"
  /\ LET r == ParseStr(data, call.i)
     IN  IF r.err # "none"
         THEN Fail(r.err) /\ UNCHANGED ret
         ELSE /\ ret' = [fn |-> "_decode_str", start |-> call.i, val |-> r.val, i |-> r.i]
              /\ pc' = "ret"
              /\ UNCHANGED <<stack, outcome>>
  /\ seen' = IF Overlong(data, call.i) THEN seen \cup {"overlong_bytestring"} ELSE seen
  /\ UNCHANGED <<value, encoded, extra, data, call, reencoded>>

(* A container's frame goes on the stack, unless the interpreter's      *)
(* recursion limit is reached.                                          *)
Enter(frame) ==
  IF Len(stack) >= RecursionLimit
  THEN Fail("RecursionError")
  ELSE /\ stack' = Append(stack, frame)
       /\ pc' = "loop"
       /\ UNCHANGED outcome

(* _decode_list, to its loop (lines 171-172). *)
_decode_list ==
  /\ pc = "call"
  /\ call.fn = "_decode_list"
  /\ Enter(Frame("_decode_list", call.i, call.i + 1))
  /\ UNCHANGED <<value, encoded, extra, data, call, ret, seen, reencoded>>

(* _decode_dict, to its loop (lines 156-157). *)
_decode_dict ==
  /\ pc = "call"
  /\ call.fn = "_decode_dict"
  /\ Enter(Frame("_decode_dict", call.i, call.i + 1))
  /\ UNCHANGED <<value, encoded, extra, data, call, ret, seen, reencoded>>

(* A call made from a frame on the stack. *)
Invoke(fn, i) ==
  /\ call' = [fn |-> fn, i |-> i]
  /\ pc' = "call"
  /\ UNCHANGED <<stack, outcome>>

(* The container's loop test, and what follows it: the return past the  *)
(* end marker, or the call that parses the next element (a list, lines  *)
(* 173-176) or the next key (a dict, lines 158-161).                    *)
Loop(child) ==
  IF PySlice(data, Top.i, Top.i + 1) = <<END>>
  THEN /\ ret' = [fn |-> Top.fn, start |-> Top.start,
                  val |-> IF Top.fn = "_decode_list" THEN MkList(Top.acc)
                          ELSE MkDict(Top.acc),
                  i |-> Top.i + 1]
       /\ stack' = Pop
       /\ pc' = "ret"
       /\ UNCHANGED <<call, outcome, seen>>
  ELSE /\ Invoke(child, Top.i)
       /\ seen' = IF Top.i = Len(data)
                  THEN seen \cup {"truncated_container"} ELSE seen
       /\ UNCHANGED ret

_decode_list_loop ==
  /\ pc = "loop"
  /\ Top.fn = "_decode_list"
  /\ Loop("_decode")
  /\ UNCHANGED <<value, encoded, extra, data, reencoded>>

_decode_dict_loop ==
  /\ pc = "loop"
  /\ Top.fn = "_decode_dict"
  /\ Loop("_decode_str")
  /\ UNCHANGED <<value, encoded, extra, data, reencoded>>

(* _decode_list: item, i = _decode(data, i); items.append(item). *)
_decode_list_item ==
  /\ pc = "ret"
  /\ Top.fn = "_decode_list"
  /\ stack' = SetTop([Top EXCEPT !.acc = Append(@, ret.val), !.i = ret.i])
  /\ pc' = "loop"
  /\ UNCHANGED <<value, encoded, extra, data, call, ret, outcome, seen, reencoded>>

(* _decode_dict: key, i = _decode_str(data, i), then the call of        *)
(* _decode(data, i) for the value.                                      *)
_decode_dict_key ==
  /\ pc = "ret"
  /\ Top.fn = "_decode_dict"
  /\ ~Top.haveKey
  /\ stack' = SetTop([Top EXCEPT !.key = ret.val, !.haveKey = TRUE, !.i = ret.i])
  /\ call' = [fn |-> "_decode", i |-> ret.i]
  /\ pc' = "call"
  /\ UNCHANGED <<value, encoded, extra, data, ret, outcome, seen, reencoded>>

(* _decode_dict: result[key], i = _decode(data, i). *)
_decode_dict_value ==
  /\ pc = "ret"
  /\ Top.fn = "_decode_dict"
  /\ Top.haveKey
  /\ stack' = SetTop([Top EXCEPT !.acc = DictSet(@, Top.key, ret.val),
                                 !.haveKey = FALSE, !.key = PyNone, !.i = ret.i])
  /\ pc' = "loop"
  /\ UNCHANGED <<value, encoded, extra, data, call, ret, outcome, seen, reencoded>>

(* encode applied to what decode returned. *)
ReEncode ==
  /\ pc = "done"
  /\ outcome.err = "none"
  /\ reencoded = Pending
  /\ reencoded' = encode(outcome.val)
  /\ pc' = "reencoded"
  /\ UNCHANGED <<value, encoded, extra, data, call, stack, ret, outcome, seen>>

DecodeStep ==
  \/ decode_call
  \/ _decode
  \/ _decode_int
  \/ _decode_str
  \/ _decode_list
  \/ _decode_list_loop
  \/ _decode_list_item
  \/ _decode_dict
  \/ _decode_dict_loop
  \/ _decode_dict_key
  \/ _decode_dict_value
  \/ _decode_return
  \/ decode_return

Next == Encode \/ Feed \/ DecodeStep \/ ReEncode

(* encode, then decode of the encoded bytes, then encode again. *)
Spec == Init /\ [][Next]_vars

(* decode of an arbitrary buffer. *)
SpecDecode == InitDecode /\ [][DecodeStep]_vars

(* ------------------------------------------------------------------ *)
(* Vocabulary of the properties.                                       *)

Encoded == pc # "input"
Decoded == pc \in {"done", "reencoded"}

(* The bytes of a ByteString, whichever way the host holds it. *)
RawBytes(x) == IF x.t = "str" THEN Utf8Encode(x.v) ELSE x.v

IsByteString(x) == x.t \in {"str", "bytes"}

(* A Value of the data model, its ByteStrings held as bytes. *)
RECURSIVE IsModelValue(_)
IsModelValue(x) ==
  IF x.t \in {"int", "bytes"} THEN TRUE
  ELSE IF x.t = "list" THEN \A k \in 1 .. Len(x.v) : IsModelValue(x.v[k])
  ELSE IF x.t = "dict"
       THEN \A k \in 1 .. Len(x.v) :
              x.v[k][1].t = "bytes" /\ IsModelValue(x.v[k][2])
  ELSE FALSE

(* Equality of two Values where a ByteString and the text string with   *)
(* the same UTF-8 bytes are equal; dicts are equal as mappings.         *)
RECURSIVE Equiv(_, _)
Equiv(a, b) ==
  IF IsByteString(a) /\ IsByteString(b) THEN RawBytes(a) = RawBytes(b)
  ELSE IF a.t # b.t THEN FALSE
  ELSE IF a.t = "list"
       THEN /\ Len(a.v) = Len(b.v)
            /\ \A k \in 1 .. Len(a.v) : Equiv(a.v[k], b.v[k])
  ELSE IF a.t = "dict"
       THEN /\ Len(a.v) = Len(b.v)
            /\ \A j \in 1 .. Len(a.v) : \E k \in 1 .. Len(b.v) :
                 Equiv(a.v[j][1], b.v[k][1]) /\ Equiv(a.v[j][2], b.v[k][2])
  ELSE a.v = b.v

(* A value encode is not meant to accept: one of another type, at any   *)
(* depth, or a dict with a key that is not a ByteString.                *)
RECURSIVE Unsupported(_)
Unsupported(x) ==
  IF x.t \in {"int", "bool", "bytes", "str"} THEN FALSE
  ELSE IF x.t = "list" THEN \E k \in 1 .. Len(x.v) : Unsupported(x.v[k])
  ELSE IF x.t = "dict"
       THEN \E k \in 1 .. Len(x.v) :
              ~IsByteString(x.v[k][1]) \/ Unsupported(x.v[k][2])
  ELSE TRUE

(* Every sequence with one member of each set of a sequence of sets. *)
RECURSIVE Choices(_)
Choices(sets) ==
  IF sets = <<>> THEN {<<>>}
  ELSE {<<h>> \o t : h \in Head(sets), t \in Choices(Tail(sets))}

(* The objects that hold what x holds, every dict in any insertion      *)
(* order, at every depth.                                               *)
RECURSIVE Reorderings(_)
Reorderings(x) ==
  IF x.t = "list"
  THEN {MkList(xs) : xs \in Choices([k \in 1 .. Len(x.v) |-> Reorderings(x.v[k])])}
  ELSE IF x.t = "dict"
  THEN LET n == Len(x.v)
           perms == {f \in [1 .. n -> 1 .. n] : \A j, k \in 1 .. n : j # k => f[j] # f[k]}
       IN  {MkDict(items) :
              items \in UNION {Choices([k \in 1 .. n |->
                                  {<<x.v[f[k]][1], w>> : w \in Reorderings(x.v[f[k]][2])}])
                               : f \in perms}}
  ELSE {x}

(* Every dict of x holds its items in strictly ascending order of the   *)
(* raw bytes of their keys.                                             *)
RECURSIVE KeysAscend(_)
KeysAscend(x) ==
  IF x.t = "list" THEN \A k \in 1 .. Len(x.v) : KeysAscend(x.v[k])
  ELSE IF x.t = "dict"
       THEN /\ \A k \in 1 .. Len(x.v) : KeysAscend(x.v[k][2])
            /\ \A k \in 1 .. (Len(x.v) - 1) :
                 SeqLess(RawBytes(x.v[k][1]), RawBytes(x.v[k + 1][1]))
  ELSE TRUE

(* ------------------------------------------------------------------ *)
(* C1.  Round trip: for every Value v of the data model (Integer,       *)
(* ByteString, List, Dict with ByteString keys), encode(v) succeeds and *)
(* decode of the encoded bytes succeeds with a value equal to v, a      *)
(* ByteString and the text string of the same UTF-8 bytes being equal.  *)
C1_RoundTrip ==
  /\ (Encoded /\ IsModelValue(value)) => encoded.err = "none"
  /\ (Decoded /\ IsModelValue(value) /\ extra = <<>>) =>
       (outcome.err = "none" /\ Equiv(outcome.val, value))

(* A two-key dict came back from decode with text where it held bytes. *)
C1_Witness ==
  /\ pc = "done" /\ extra = <<>>
  /\ IsModelValue(value)
  /\ value.t = "dict" /\ Len(value.v) = 2
  /\ outcome.err = "none"
  /\ outcome.val # value

(* C2.  Canonicalization: two mappings that hold the same key/value     *)
(* pairs in different insertion orders, at every nesting level, encode  *)
(* to the same bytes, and the bytes hold the entries in ascending       *)
(* byte-lexicographic order of their keys (read back in wire order by   *)
(* decode).                                                             *)
C2_Canonical ==
  /\ Encoded => \A w \in Reorderings(value) : encode(w) = encoded
  /\ (Decoded /\ extra = <<>> /\ outcome.err = "none") => KeysAscend(outcome.val)

(* A dict inside a dict, built with its two keys in descending order,   *)
(* was encoded and read back.                                           *)
C2_Witness ==
  /\ pc = "done" /\ extra = <<>> /\ outcome.err = "none"
  /\ value.t = "dict" /\ Len(value.v) = 1
  /\ value.v[1][2].t = "dict" /\ Len(value.v[1][2].v) = 2
  /\ SeqLess(RawBytes(value.v[1][2].v[2][1]), RawBytes(value.v[1][2].v[1][1]))

(* C3.  Trailing data: decode of a complete encoded value followed by   *)
(* at least one more byte fails with BencodeDecodeError, and decode     *)
(* returns a value only when the cursor returned by the one top-level   *)
(* _decode(data, 0) equals the buffer length.                           *)
C3_TrailingData ==
  /\ (Decoded /\ extra # <<>> /\ ~Unsupported(value)) =>
       outcome.err = "BencodeDecodeError"
  /\ (Decoded /\ outcome.err = "none") =>
       (ret.fn = "_decode" /\ ret.start = 0 /\ ret.i = Len(data))

(* The top-level parse of a list returned short of the end of a buffer  *)
(* with a trailing byte, and decode raised.                             *)
C3_Witness ==
  /\ pc = "done" /\ extra # <<>>
  /\ value.t = "list" /\ Len(value.v) = 2
  /\ ret.fn = "_decode" /\ ret.start = 0 /\ ret.i = Len(data) - 1
  /\ outcome.err = "BencodeDecodeError"

(* C4.  Truncated container: when a List or a Dict reaches the end of   *)
(* the buffer without its end marker, decode fails with                 *)
(* BencodeDecodeError and with nothing else.                            *)
C4_TruncatedContainer ==
  (pc = "done" /\ "truncated_container" \in seen) =>
    outcome.err = "BencodeDecodeError"

(* C5.  Over-long ByteString: when a ByteString declares more bytes     *)
(* than follow its ':', decode fails with BencodeDecodeError and with   *)
(* nothing else.                                                        *)
C5_OverlongByteString ==
  (pc = "done" /\ "overlong_bytestring" \in seen) =>
    outcome.err = "BencodeDecodeError"

(* C6.  Unterminated integer: when no 'e' follows an Integer marker     *)
(* 'i', decode fails with BencodeDecodeError.                           *)
C6_UnterminatedInteger ==
  (pc = "done" /\ call.fn = "_decode_int" /\ PyIndex(data, END, call.i + 1) = -1) =>
    outcome.err = "BencodeDecodeError"

(* C7.  Unsupported input: encode of a value outside the data model, at *)
(* any depth, or of a Dict with a key that is not a ByteString, fails   *)
(* with BencodeEncodeError and returns no bytes.                        *)
C7_UnsupportedInput ==
  (Encoded /\ Unsupported(value)) => encoded.err = "BencodeEncodeError"

(* C8.  Re-encode identity: for every Value v of the data model,        *)
(* encode(decode(encode(v))) succeeds and equals encode(v), also when   *)
(* decode surfaced some ByteStrings as text and others as bytes.        *)
C8_ReEncodeIdentity ==
  /\ (pc = "reencoded" /\ IsModelValue(value) /\ extra = <<>>) => reencoded = encoded
  /\ (Decoded /\ IsModelValue(value) /\ extra = <<>>) => outcome.err = "none"

(* C9.  Cursor bound: no cursor passed to, held by or returned from a   *)
(* parse step is greater than the buffer length.                        *)
C9_CursorBound ==
  /\ pc = "call" => call.i <= Len(data)
  /\ pc = "ret" => ret.i <= Len(data)
  /\ \A k \in 1 .. Len(stack) : stack[k].i <= Len(data)

(* C10.  Cursor progress and termination: every parse step that starts  *)
(* at cursor i and returns, returns a cursor greater than i, and decode *)
(* does not recurse without end.                                        *)
C10_CursorProgress ==
  /\ pc = "ret" => ret.i > ret.start
  /\ outcome.err # "RecursionError"

====
